---- MODULE Spec2Model ----
(***************************************************************************)
(* A model of the Asana due-date automation webhook server (src/server.py).*)
(*                                                                         *)
(* The server keeps one process-wide set, processed_events, and answers    *)
(* HTTP requests on /webhook.  Every request runs in a handler thread of   *)
(* the Flask development server; a handler walks through webhook(),        *)
(* process_event() and the two rules, and talks to the external task       *)
(* service (fetch a task, list a project, put a due date).                 *)
(*                                                                         *)
(* Encoding of Python values:                                              *)
(*   an optional value (None / missing key) is a sequence of length 0, a   *)
(*   present one a sequence of length 1 (an enum_value, a header) or, for  *)
(*   a 'YYYY-MM-DD' date string, the triple <<year, month, day>>;          *)
(*   an event marker is the triple <<created_at, gid, action>>, an update  *)
(*   marker the pair <<task gid, date>>, as the tuples of the code.        *)
(***************************************************************************)
EXTENDS Integers, Sequences, FiniteSets, TLC

\* -------------------------------------------------------------------------
\* Bounds of the model
\* -------------------------------------------------------------------------

\* deliveries the environment sends in one behaviour
MaxRequests == 2
\* edits of a due date made in the task service by somebody else
MaxEdits == 1

\* -------------------------------------------------------------------------
\* Strings: str.lower() on the names the model uses
\* -------------------------------------------------------------------------

Lower(s) ==
    CASE s = "Stage"       -> "stage"
      [] s = "STAGE"       -> "stage"
      [] s = "Priority"    -> "priority"
      [] s = "PRIORITY"    -> "priority"
      [] s = "High"        -> "high"
      [] s = "HIGH"        -> "high"
      [] s = "Medium"      -> "medium"
      [] s = "Low"         -> "low"
      [] s = "Urgent"      -> "urgent"
      [] s = "In Progress" -> "in progress"
      [] s = "IN PROGRESS" -> "in progress"
      [] s = "Done"        -> "done"
      [] OTHER             -> s

\* -------------------------------------------------------------------------
\* Dates: datetime.strptime(s, '%Y-%m-%d') + timedelta(days=n), formatted
\* back with strftime('%Y-%m-%d')
\* -------------------------------------------------------------------------

None == <<>>

IsLeap(y) == (y % 4 = 0 /\ y % 100 # 0) \/ y % 400 = 0

DaysInMonth(y, m) ==
    IF m = 2 THEN (IF IsLeap(y) THEN 29 ELSE 28)
    ELSE IF m \in {4, 6, 9, 11} THEN 30 ELSE 31

NextDay(d) ==
    IF d[3] < DaysInMonth(d[1], d[2]) THEN <<d[1], d[2], d[3] + 1>>
    ELSE IF d[2] < 12 THEN <<d[1], d[2] + 1, 1>>
    ELSE <<d[1] + 1, 1, 1>>

RECURSIVE timedelta(_, _)
timedelta(d, n) == IF n = 0 THEN d ELSE timedelta(NextDay(d), n - 1)

\* the fixed shift of the cascade (line 141)
CascadeDays == 2

\* a shift that counts the current day as the first of the two
new_due_date_inclusive(current_due_date) == timedelta(current_due_date, CascadeDays - 1)

new_due_date(current_due_date) == timedelta(current_due_date, CascadeDays)

\* -------------------------------------------------------------------------
\* Custom fields.  A field is [name |-> string, enum_value |-> None or
\* <<name of the enum option>>]; custom_fields is a sequence of fields.
\* -------------------------------------------------------------------------

Field(n, v) == [name |-> n, enum_value |-> v]

Matches(cf, target) == {i \in 1..Len(cf) : Lower(cf[i].name) = target}

Max(S) == CHOOSE x \in S : \A y \in S : y <= x
Min(S) == CHOOSE x \in S : \A y \in S : x <= y

\* lines 88-92: the loop has no break, the last field of that name stays
LastField(cf, target) ==
    IF Matches(cf, target) = {} THEN None ELSE <<cf[Max(Matches(cf, target))]>>

\* lines 180-183: the loop breaks at the first field named priority
FirstField(cf, target) ==
    IF Matches(cf, target) = {} THEN None ELSE <<cf[Min(Matches(cf, target))]>>

\* task_data.get('custom_fields', []): a missing key reads as the empty list
custom_fields_of(task_data) ==
    IF task_data.has_custom_fields THEN task_data.custom_fields ELSE <<>>

\* lines 82-109
is_high_priority_in_progress(task_data) ==
    LET stage_field == LastField(custom_fields_of(task_data), "stage")
        priority_field == LastField(custom_fields_of(task_data), "priority")
    IN  IF stage_field = None \/ stage_field[1].enum_value = None THEN FALSE
        ELSE IF priority_field = None \/ priority_field[1].enum_value = None THEN FALSE
        ELSE /\ Lower(stage_field[1].enum_value[1]) = "in progress"
             /\ Lower(priority_field[1].enum_value[1]) = "high"

\* a table whose medium and low offsets are swapped
priority_to_days_swapped(priority_value) ==
    CASE priority_value = "high"   -> <<2>>
      [] priority_value = "medium" -> <<14>>
      [] priority_value = "low"    -> <<7>>
      [] OTHER                     -> None

\* lines 192-197: the table and its .get(), None for a name it does not hold
priority_to_days(priority_value) ==
    CASE priority_value = "high"   -> <<2>>
      [] priority_value = "medium" -> <<7>>
      [] priority_value = "low"    -> <<14>>
      [] OTHER                     -> None

\* the rule without the test of lines 173-176
priority_due_date_overwrite(task_data, utcnow) ==
    LET priority_field == FirstField(custom_fields_of(task_data), "priority")
    IN  IF priority_field = None \/ priority_field[1].enum_value = None THEN None
        ELSE LET days_to_add == priority_to_days(Lower(priority_field[1].enum_value[1]))
             IN  IF days_to_add = None THEN None
                 ELSE timedelta(utcnow, days_to_add[1])

\* lines 171-202: the due date handle_priority_based_due_date asks for, None
\* when it returns before the update call
priority_due_date(task_data, utcnow) ==
    LET priority_field == FirstField(custom_fields_of(task_data), "priority")
    IN  IF task_data.due_on # None THEN None
        ELSE IF priority_field = None \/ priority_field[1].enum_value = None THEN None
        ELSE LET days_to_add == priority_to_days(Lower(priority_field[1].enum_value[1]))
             IN  IF days_to_add = None THEN None
                 ELSE timedelta(utcnow, days_to_add[1])

\* lines 234-242: a listed task is kept when some field named stage has a
\* value whose name is 'in progress'
stage_in_progress(custom_fields) ==
    \E i \in 1..Len(custom_fields) :
        /\ Lower(custom_fields[i].name) = "stage"
        /\ custom_fields[i].enum_value # None
        /\ Lower(custom_fields[i].enum_value[1]) = "in progress"

\* a guard that never finds a marker
is_due_date_updated_never(task_id, current_due_date, ledger) == FALSE

\* a guard that looks up the marker of the date it is about to write
is_due_date_updated_target(task_id, current_due_date, ledger) ==
    <<task_id, new_due_date(current_due_date)>> \in ledger

\* line 165
is_due_date_updated(task_id, current_due_date, ledger) ==
    <<task_id, current_due_date>> \in ledger

\* line 55: the event's identity; None when a key is missing (KeyError)
event_key(event) ==
    IF event.created_at = None \/ event.gid = None \/ event.action = None THEN None
    ELSE <<event.created_at[1], event.gid[1], event.action[1]>>

\* a duplicate test that compares with the update markers only
is_duplicate_pairs(key, ledger) == key \in {m \in ledger : Len(m) = 2}

\* line 56
is_duplicate(key, ledger) == key \in ledger

\* an exclusion test that never matches
is_excluded_never(task_id, excluded_task_id) == FALSE

\* line 124
is_excluded(task_id, excluded_task_id) == task_id = excluded_task_id

\* -------------------------------------------------------------------------
\* Values of the environment
\* -------------------------------------------------------------------------

\* the handler threads of the development server (app.run, line 270)
Threads == {"h1", "h2"}

TaskIds == {"T1", "T2", "T3"}

ProjectGid == "P"

Event(c, g, a) == [created_at |-> c, gid |-> g, action |-> a]

\* a request body: json is "invalid" (not decodable), "array" (decodable, not
\* an object) or "object"; an object may hold no 'events' key, or a value a
\* for loop cannot iterate, or a list of events
Body(j, h, i, es) == [json |-> j, has_events |-> h, iterable |-> i, events |-> es]

Delivery(es) == Body("object", TRUE, TRUE, es)

Request(m, secret, b) == [method |-> m, secret |-> secret, body |-> b]

Post(es) == Request("POST", None, Delivery(es))

NoResponse == [status |-> 0, body |-> "", hook_secret |-> None]

Response(st, b, h) == [status |-> st, body |-> b, hook_secret |-> h]

NoTask == [due_on |-> None, has_custom_fields |-> FALSE, custom_fields |-> <<>>,
           memberships |-> <<>>]

\* -------------------------------------------------------------------------
\* State
\* -------------------------------------------------------------------------

VARIABLES
    processed_events,  \* line 20: event markers and update markers
    tasks,             \* the task service: gid -> task record
    listing,           \* the task service: the gids the project listing returns
    utcnow,            \* the current UTC day
    pc,                \* per thread: where the handler stands
    request,           \* per thread: the request being handled
    idx,               \* per thread: position of the for loop of line 42
    task_data,         \* per thread: the record fetched at line 62
    in_progress_tasks, \* per thread: what is left of the loop of line 122
    current_due_date,  \* per thread: line 132
    response,          \* per thread: the last response sent
    calls,             \* per thread: outbound calls made for the current event
    nreq,              \* requests received so far
    edits,             \* foreign edits made so far
    failed,            \* whether some outbound call has failed so far
    dispatched,        \* per thread: the events handed to process_event (line 43)
    passes,            \* event identity -> how often line 59 was reached for it
    pending            \* the task service: tasks changed by the server whose
                       \* 'changed' event is still to be delivered

service == <<tasks, listing, utcnow, pending>>
locals == <<idx, task_data, in_progress_tasks, current_due_date>>
ghosts == <<nreq, edits, failed, dispatched, passes>>
vars == <<processed_events, tasks, listing, utcnow, pc, request, idx, task_data,
          in_progress_tasks, current_due_date, response, calls, nreq, edits, failed,
          dispatched, passes, pending>>

InitHandlers ==
    /\ processed_events = {}
    /\ pc = [t \in Threads |-> "idle"]
    /\ request = [t \in Threads |-> Request("GET", None, Body("invalid", FALSE, FALSE, <<>>))]
    /\ idx = [t \in Threads |-> 1]
    /\ task_data = [t \in Threads |-> NoTask]
    /\ in_progress_tasks = [t \in Threads |-> <<>>]
    /\ current_due_date = [t \in Threads |-> None]
    /\ response = [t \in Threads |-> NoResponse]
    /\ calls = [t \in Threads |-> <<>>]
    /\ nreq = 0
    /\ edits = 0
    /\ failed = FALSE
    /\ dispatched = [t \in Threads |-> <<>>]
    /\ passes = <<>>
    /\ pending = <<>>

\* -------------------------------------------------------------------------
\* Moves of a handler thread
\* -------------------------------------------------------------------------

\* line 41
events_of(body) == IF body.has_events THEN body.events ELSE <<>>

move(t, label, i, data, queue, due) ==
    /\ pc' = [pc EXCEPT ![t] = label]
    /\ idx' = [idx EXCEPT ![t] = i]
    /\ task_data' = [task_data EXCEPT ![t] = data]
    /\ in_progress_tasks' = [in_progress_tasks EXCEPT ![t] = queue]
    /\ current_due_date' = [current_due_date EXCEPT ![t] = due]

\* staying inside the current function
goto(t, label) ==
    move(t, label, idx[t], task_data[t], in_progress_tasks[t], current_due_date[t])

\* process_event ends the whole loop instead of returning to it
next_event_abort(t) == move(t, "dispatch", Len(events_of(request[t].body)) + 1, NoTask, <<>>, None)

\* leaving process_event: back to the for statement of line 42; the locals
\* of process_event and of the cascade are gone
next_event(t) == move(t, "dispatch", idx[t] + 1, NoTask, <<>>, None)

\* the 'continue' of the loop of line 122
continue(t) ==
    move(t, "sibling", idx[t], task_data[t], Tail(in_progress_tasks[t]), None)

call(t, c) == calls' = [calls EXCEPT ![t] = Append(@, c)]

\* -------------------------------------------------------------------------
\* webhook(), lines 23-50
\* -------------------------------------------------------------------------

\* a handshake that is answered on GET requests only
is_handshake_get(req) == req.method = "GET" /\ req.secret # None /\ req.secret[1] # ""

\* line 30: 'if x_hook_secret:' is the truth value of the header, so a header
\* that is present and empty does not count
is_handshake(req) == req.secret # None /\ req.secret[1] # ""

\* lines 39-42: whether request.json, .get('events', []) and the for statement
\* get as far as the loop; otherwise the except of line 46 answers
reaches_loop(body) ==
    /\ body.json = "object"
    /\ body.has_events => body.iterable

\* line 48: the status of the answer when the try block of line 38 raises
error_status == 500

\* lines 29-50 up to the for statement: the answer, or NoResponse when the
\* loop is entered
first_answer(req) ==
    IF is_handshake(req) THEN Response(200, "", req.secret)
    ELSE IF req.method = "POST"
      THEN IF reaches_loop(req.body) THEN NoResponse
           ELSE Response(error_status, "error", None)
    ELSE Response(400, "Invalid request", None)

\* a request arrives and runs up to the for statement, or to its answer
receive(t, req) ==
    /\ pc[t] = "idle"
    /\ nreq' = nreq + 1
    /\ request' = [request EXCEPT ![t] = req]
    /\ calls' = [calls EXCEPT ![t] = <<>>]
    /\ response' = [response EXCEPT ![t] = first_answer(req)]
    /\ move(t, IF first_answer(req) = NoResponse THEN "dispatch" ELSE "idle",
            1, NoTask, <<>>, None)
    /\ dispatched' = [dispatched EXCEPT ![t] = <<>>]
    /\ UNCHANGED <<processed_events, tasks, listing, utcnow, edits, failed, passes>>

\* one of the requests the environment sends on its own
webhook(t, req) ==
    /\ nreq < MaxRequests
    /\ receive(t, req)
    /\ UNCHANGED pending

events(t) == events_of(request[t].body)

\* the event process_event is working on
event(t) == events(t)[idx[t]]

task_id(t) == event(t).gid[1]

\* line 44: the loop is over
webhook_done(t) ==
    /\ pc[t] = "dispatch"
    /\ idx[t] > Len(events(t))
    /\ response' = [response EXCEPT ![t] = Response(200, "success", None)]
    /\ goto(t, "idle")
    /\ UNCHANGED <<processed_events, service, request, calls, ghosts>>

\* -------------------------------------------------------------------------
\* process_event(), lines 53-79
\* -------------------------------------------------------------------------

\* lines 55-58: whether process_event goes on to line 59
proceeds(ev, ledger) ==
    /\ event_key(ev) # None                       \* else KeyError, caught at line 78
    /\ ~is_duplicate(event_key(ev), ledger)

\* lines 55-58: the identity and the duplicate test
process_event(t) ==
    /\ pc[t] = "dispatch"
    /\ idx[t] <= Len(events(t))
    /\ calls' = [calls EXCEPT ![t] = <<>>]
    /\ dispatched' = [dispatched EXCEPT ![t] = Append(@, event(t))]
    /\ IF proceeds(event(t), processed_events) THEN goto(t, "add") ELSE next_event(t)
    /\ UNCHANGED <<processed_events, service, request, response, nreq, edits, failed,
                   passes>>

count(bag, k) ==
    IF k \in DOMAIN bag THEN [bag EXCEPT ![k] = @ + 1] ELSE bag @@ (k :> 1)

\* a dispatch that goes on to the fetch without recording the identity
mark_event_forgotten(t) ==
    /\ pc[t] = "add"
    /\ passes' = count(passes, event_key(event(t)))
    /\ goto(t, "fetch")
    /\ UNCHANGED <<processed_events, service, request, response, calls, nreq, edits,
                   failed, dispatched>>

\* line 59
mark_event(t) ==
    /\ pc[t] = "add"
    /\ processed_events' = processed_events \cup {event_key(event(t))}
    /\ passes' = count(passes, event_key(event(t)))
    /\ goto(t, "fetch")
    /\ UNCHANGED <<service, request, response, calls, nreq, edits, failed, dispatched>>

\* the rules run for every action
after_fetch_any(action) == "rules"

\* lines 64-70: what follows a successful fetch
after_fetch(action) == IF action = "changed" THEN "rules" ELSE "skip"

\* lines 61-70, with fetch_task_details (lines 251-265): ok is whether the
\* service answers 200
fetch_task(t, ok) ==
    /\ pc[t] = "fetch"
    /\ call(t, <<"GET", task_id(t), ok>>)
    /\ failed' = (failed \/ ~ok)
    /\ IF ok /\ after_fetch(event(t).action[1]) = "rules"
         THEN move(t, "rules", idx[t], tasks[task_id(t)], <<>>, None)
         ELSE next_event(t)
    /\ UNCHANGED <<processed_events, service, request, response, nreq, edits, dispatched,
                   passes>>

\* -------------------------------------------------------------------------
\* The rules of a 'changed' event, lines 70-76
\* -------------------------------------------------------------------------

\* the answers of the task service to an update call: 200, another status,
\* or no answer at all (requests.put raises)
PutOutcomes == {"ok", "rejected", "raise"}

set_due_on(store, gid, d) == [store EXCEPT ![gid].due_on = d]

\* the task service queues a 'changed' event for a task whose due date an
\* update call has changed
notify(queue, gid, outcome) == IF outcome = "ok" THEN Append(queue, gid) ELSE queue

\* lines 71-72: the due date the priority rule asks for on this event
priority_request(data, now) ==
    IF data.has_custom_fields THEN priority_due_date(data, now) ELSE None

\* lines 74-76: what follows the priority rule
after_priority(data) ==
    IF is_high_priority_in_progress(data) THEN "cascade" ELSE "skip"

\* lines 70-76: handle_priority_based_due_date (lines 167-216) with its
\* update call, then the trigger test
apply_rules(t, outcome) ==
    /\ pc[t] = "rules"
    /\ LET d == priority_request(task_data[t], utcnow)
       IN  IF d = None
             THEN /\ outcome = "ok"
                  /\ UNCHANGED <<tasks, calls, failed, pending>>
             ELSE /\ call(t, <<"PUT", task_id(t), d, outcome>>)
                  /\ tasks' = IF outcome = "ok" THEN set_due_on(tasks, task_id(t), d)
                              ELSE tasks
                  /\ pending' = notify(pending, task_id(t), outcome)
                  /\ failed' = (failed \/ outcome # "ok")
    /\ IF after_priority(task_data[t]) = "cascade"
         THEN goto(t, "cascade")
         ELSE next_event(t)
    /\ UNCHANGED <<processed_events, listing, utcnow, request, response, nreq, edits, dispatched,
                   passes>>

\* -------------------------------------------------------------------------
\* adjust_due_dates_for_in_progress(), lines 112-158
\* -------------------------------------------------------------------------

\* lines 230-244: the listed tasks whose stage is in progress, in listing order
get_in_progress_tasks(lst, store) ==
    SelectSeq(lst, LAMBDA g : stage_in_progress(custom_fields_of(store[g])))

\* line 117: the project of the first membership.  An empty membership list
\* raises IndexError (caught at line 157), a membership without a project
\* gives None (return at line 119): no listing in either case.
project_gid(data) ==
    IF data.memberships = <<>> THEN None ELSE data.memberships[1]

\* lines 117-121
list_project(t, ok) ==
    /\ pc[t] = "cascade"
    /\ IF project_gid(task_data[t]) = None
         THEN /\ ok
              /\ next_event(t)
              /\ UNCHANGED <<calls, failed>>
         ELSE /\ call(t, <<"LIST", project_gid(task_data[t])[1], ok>>)
              /\ failed' = (failed \/ ~ok)
              /\ move(t, "sibling", idx[t], task_data[t],
                      IF ok THEN get_in_progress_tasks(listing, tasks) ELSE <<>>, None)
    /\ UNCHANGED <<processed_events, service, request, response, nreq, edits, dispatched,
                   passes>>

sibling(t) == Head(in_progress_tasks[t])

\* the loop of line 122 is over
cascade_done(t) ==
    /\ pc[t] = "sibling"
    /\ in_progress_tasks[t] = <<>>
    /\ next_event(t)
    /\ UNCHANGED <<processed_events, service, request, response, calls, ghosts>>

\* lines 123-134: the exclusion test, then the fetch of the current due date
fetch_sibling(t, ok) ==
    /\ pc[t] = "sibling"
    /\ in_progress_tasks[t] # <<>>
    /\ IF is_excluded(sibling(t), task_id(t))
         THEN /\ ok
              /\ continue(t)
              /\ UNCHANGED <<calls, failed>>
         ELSE /\ call(t, <<"GET", sibling(t), ok>>)
              /\ failed' = (failed \/ ~ok)
              /\ IF ok /\ tasks[sibling(t)].due_on # None
                   THEN move(t, "guard", idx[t], task_data[t], in_progress_tasks[t],
                             tasks[sibling(t)].due_on)
                   ELSE continue(t)
    /\ UNCHANGED <<processed_events, service, request, response, nreq, edits, dispatched,
                   passes>>

\* lines 137-141
guard(t) ==
    /\ pc[t] = "guard"
    /\ IF is_due_date_updated(sibling(t), current_due_date[t], processed_events)
         THEN continue(t)
         ELSE goto(t, "put")
    /\ UNCHANGED <<processed_events, service, request, response, calls, ghosts>>

\* an update call whose status is not looked at
after_put_unchecked(outcome) ==
    CASE outcome = "raise" -> "abort"
      [] OTHER             -> "mark"

\* lines 150-158: what follows the update call
after_put(outcome) ==
    CASE outcome = "ok"       -> "mark"
      [] outcome = "rejected" -> "continue"
      [] OTHER                -> "abort"

\* lines 144-155: the update call and the test of its status.  When the call
\* raises, the except of line 157 ends the cascade.
put_due_date(t, outcome) ==
    /\ pc[t] = "put"
    /\ call(t, <<"PUT", sibling(t), new_due_date(current_due_date[t]), outcome>>)
    /\ failed' = (failed \/ outcome # "ok")
    /\ tasks' = IF outcome = "ok"
                  THEN set_due_on(tasks, sibling(t), new_due_date(current_due_date[t]))
                  ELSE tasks
    /\ pending' = notify(pending, sibling(t), outcome)
    /\ CASE after_put(outcome) = "mark"     -> goto(t, "mark")
         [] after_put(outcome) = "continue" -> continue(t)
         [] OTHER                           -> next_event(t)
    /\ UNCHANGED <<processed_events, listing, utcnow, request, response, nreq, edits, dispatched,
                   passes>>

\* line 153: the marker of the date just written
update_marker(gid, current) == <<gid, new_due_date(current)>>

mark_update(t) ==
    /\ pc[t] = "mark"
    /\ processed_events' = processed_events \cup
           {update_marker(sibling(t), current_due_date[t])}
    /\ continue(t)
    /\ UNCHANGED <<service, request, response, calls, ghosts>>

\* one step of the handler thread t
handler(t) ==
    \/ webhook_done(t)
    \/ process_event(t)
    \/ mark_event(t)
    \/ \E ok \in BOOLEAN : fetch_task(t, ok)
    \/ \E outcome \in PutOutcomes : apply_rules(t, outcome)
    \/ \E ok \in BOOLEAN : list_project(t, ok)
    \/ cascade_done(t)
    \/ \E ok \in BOOLEAN : fetch_sibling(t, ok)
    \/ guard(t)
    \/ \E outcome \in PutOutcomes : put_due_date(t, outcome)
    \/ mark_update(t)

\* -------------------------------------------------------------------------
\* The task service outside the server: somebody else sets a due date
\* -------------------------------------------------------------------------

D(day) == <<2024, 1, day>>

EditDates == {None, D(5), D(7)}

EditTasks == {"T2"}

foreign_edit(gid, d) ==
    /\ edits < MaxEdits
    /\ tasks[gid].due_on # d
    /\ edits' = edits + 1
    /\ tasks' = set_due_on(tasks, gid, d)
    /\ UNCHANGED <<processed_events, listing, utcnow, pc, request, locals, response,
                   calls, nreq, failed, dispatched, passes, pending>>

\* -------------------------------------------------------------------------
\* Worlds and deliveries
\* -------------------------------------------------------------------------

TaskRecord(due, has, cf, mem) ==
    [due_on |-> due, has_custom_fields |-> has, custom_fields |-> cf, memberships |-> mem]

InProject == << <<ProjectGid>> >>

Task(due, cf) == TaskRecord(due, TRUE, cf, InProject)

HighInProgress == <<Field("STAGE", <<"In Progress">>), Field("priority", <<"HIGH">>)>>
InProgress == <<Field("Stage", <<"in progress">>)>>
LowDone == <<Field("Priority", <<"Low">>), Field("Stage", <<"Done">>)>>

E1 == Event(<<"t1">>, <<"T1">>, <<"changed">>)
E2 == Event(<<"t2">>, <<"T1">>, <<"changed">>)
E3 == Event(<<"t1">>, <<"T2">>, <<"added">>)
\* an event without 'created_at': line 55 raises KeyError
Bad == Event(None, <<"T1">>, <<"changed">>)

Events == {E1, E2, E3, Bad}

Batches == {<<>>} \cup {<<e>> : e \in Events} \cup {<<e, f>> : e, f \in Events}

Secret == <<"abc123">>

Handshakes ==
    {Request("GET", Secret, Delivery(<<>>)), Request("POST", Secret, Delivery(<<E1>>))}

\* requests that are neither a handshake nor a delivery of a list of events
Others ==
    { Request("GET", None, Delivery(<<>>)),
      Request("GET", <<"">>, Delivery(<<>>)),
      Request("POST", <<"">>, Delivery(<<E1>>)),
      Request("POST", None, Body("invalid", FALSE, FALSE, <<>>)),
      Request("POST", None, Body("array", FALSE, FALSE, <<>>)),
      Request("POST", None, Body("object", FALSE, FALSE, <<>>)),
      Request("POST", None, Body("object", TRUE, FALSE, <<>>)) }

Requests == {Post(es) : es \in Batches} \cup Handshakes \cup Others

\* -------------------------------------------------------------------------
\* Spec: one handler at a time (deliveries handled one after another), any
\* outcome of the outbound calls, foreign edits of due dates
\* -------------------------------------------------------------------------

Init ==
    /\ InitHandlers
    /\ \E t1 \in {Task(D(10), HighInProgress), Task(None, HighInProgress), Task(None, LowDone)},
          t2 \in {Task(D(5), InProgress), Task(None, InProgress)} :
          tasks = [g \in TaskIds |->
                     CASE g = "T1" -> t1
                       [] g = "T2" -> t2
                       [] OTHER    -> Task(<<2024, 2, 28>>, InProgress)]
    /\ listing \in {<<"T1", "T2", "T3">>, <<"T2", "T1", "T2", "T1">>}
    /\ utcnow = D(3)

Next ==
    \/ \E req \in Requests : webhook("h1", req)
    \/ handler("h1")
    \/ \E gid \in EditTasks, d \in EditDates : foreign_edit(gid, d)

Spec == Init /\ [][Next]_vars

\* -------------------------------------------------------------------------
\* SpecRules: one 'changed' or 'added' event on a task T1 of any shape, on
\* several days, any outcome of the outbound calls
\* -------------------------------------------------------------------------

E4 == Event(<<"t1">>, <<"T1">>, <<"added">>)

RuleFields ==
    { <<>>,
      <<Field("Priority", <<"High">>)>>,
      <<Field("PRIORITY", <<"Medium">>)>>,
      <<Field("priority", <<"low">>)>>,
      <<Field("Priority", None)>>,
      <<Field("Priority", <<"Urgent">>)>>,
      <<Field("Priority", <<"">>)>>,
      HighInProgress,
      <<Field("Stage", <<"IN PROGRESS">>), Field("Priority", <<"Medium">>)>>,
      <<Field("Stage", <<"Done">>), Field("Priority", <<"High">>)>>,
      <<Field("Stage", <<"In Progress">>), Field("Priority", <<"Low">>),
        Field("Priority", <<"High">>)>>,
      <<Field("Priority", <<"High">>), Field("Priority", None),
        Field("Stage", <<"In Progress">>)>>,
      <<Field("Stage", <<"Done">>), Field("Stage", <<"In Progress">>),
        Field("Priority", <<"HIGH">>)>> }

RuleTasks ==
    {TaskRecord(due, TRUE, cf, mem) :
        due \in {None, D(10)}, cf \in RuleFields, mem \in {InProject, <<>>, <<None>>}}
    \cup {TaskRecord(due, FALSE, <<>>, InProject) : due \in {None, D(10)}}

RuleDays == {D(3), <<2024, 2, 27>>, <<2023, 12, 30>>}

RuleRequests == {Post(<<E1>>), Post(<<E4>>)}

\* the third task of the project: done, or with two fields named stage
RuleSiblings ==
    { Task(<<2024, 2, 28>>, LowDone),
      Task(D(6), <<Field("Stage", <<"Done">>), Field("stage", <<"In Progress">>)>>) }

InitRules ==
    /\ InitHandlers
    /\ \E t1 \in RuleTasks, t3 \in RuleSiblings :
          tasks = [g \in TaskIds |->
                     CASE g = "T1" -> t1
                       [] g = "T2" -> Task(D(5), InProgress)
                       [] OTHER    -> t3]
    /\ listing = <<"T1", "T2", "T3">>
    /\ utcnow \in RuleDays

NextRules ==
    \/ \E req \in RuleRequests : webhook("h1", req)
    \/ handler("h1")

SpecRules == InitRules /\ [][NextRules]_vars

\* -------------------------------------------------------------------------
\* SpecE2E: the scenario of the project P with T1, T2 and T3, into which the
\* 'changed' event of T1 is delivered, and delivered again
\* -------------------------------------------------------------------------

InitE2E ==
    /\ InitHandlers
    /\ tasks = [g \in TaskIds |->
                  CASE g = "T1" -> Task(D(10), <<Field("Stage", <<"In Progress">>),
                                                 Field("Priority", <<"High">>)>>)
                    [] g = "T2" -> Task(D(5), InProgress)
                    [] OTHER    -> Task(D(6), InProgress)]
    /\ listing = <<"T1", "T2", "T3">>
    /\ utcnow = D(3)

NextE2E ==
    \/ webhook("h1", Post(<<E1>>))
    \/ handler("h1")
    \/ \E gid \in EditTasks, d \in EditDates : foreign_edit(gid, d)

SpecE2E == InitE2E /\ [][NextE2E]_vars

\* -------------------------------------------------------------------------
\* SpecConc: two requests handled at the same time by two threads of the
\* development server (threaded by default), in the world of the scenario.
\* A thread is interleaved with the other at every read and write of
\* processed_events and at every outbound call.
\* -------------------------------------------------------------------------

ConcRequests == {Post(<<E1>>), Post(<<E2>>)}

NextConc ==
    \E t \in Threads :
        \/ \E req \in ConcRequests : webhook(t, req)
        \/ handler(t)

SpecConc == InitE2E /\ [][NextConc]_vars

\* -------------------------------------------------------------------------
\* SpecLoop: the task service answers every due date the server writes with
\* a 'changed' event of the written task that carries a new timestamp, and
\* nobody else changes a task.  The requests are handled one after the
\* other, each one as soon as the server is free.
\* -------------------------------------------------------------------------

MaxDeliveries == 9

changed_event(n, gid) == Event(<<n>>, <<gid>>, <<"changed">>)

\* the 'changed' event that starts it all
first_delivery(t, gid) ==
    /\ nreq = 0
    /\ receive(t, Post(<<changed_event(0, gid)>>))
    /\ UNCHANGED pending

\* the event of the oldest write that has not been notified yet
deliver(t) ==
    /\ nreq > 0
    /\ nreq < MaxDeliveries
    /\ pending # <<>>
    /\ receive(t, Post(<<changed_event(nreq, Head(pending))>>))
    /\ pending' = Tail(pending)

LoopTasks ==
    { Task(None, HighInProgress),
      Task(D(5), HighInProgress),
      Task(D(10), InProgress),
      Task(None, <<Field("Stage", <<"In Progress">>), Field("Priority", <<"Low">>)>>),
      Task(None, LowDone) }

InitLoop ==
    /\ InitHandlers
    /\ tasks \in [TaskIds -> LoopTasks]
    /\ listing = <<"T1", "T2", "T3">>
    /\ utcnow = D(3)

NextLoop ==
    \/ \E gid \in TaskIds : first_delivery("h1", gid)
    \/ deliver("h1")
    \/ handler("h1")

SpecLoop == InitLoop /\ [][NextLoop]_vars

\* =========================================================================
\* Properties
\* =========================================================================

valid_delivery(req) ==
    /\ req.method = "POST"
    /\ req.body.json = "object" /\ req.body.has_events /\ req.body.iterable

last_call(t) == calls[t][Len(calls[t])]

\* C1: once line 59 has been reached for an event identity, every later
\* dispatch of an event with that identity goes straight back to the loop:
\* no fetch, no rule, no write, and the ledger stays as it is.
C1_DuplicateDispatchDoesNothing ==
    [][\A t \in Threads :
         ( /\ pc[t] = "dispatch"
           /\ idx[t] <= Len(events(t))
           /\ dispatched'[t] # dispatched[t]
           /\ event_key(event(t)) # None
           /\ event_key(event(t)) \in DOMAIN passes )
         => /\ pc'[t] = "dispatch"
            /\ idx'[t] = idx[t] + 1
            /\ calls'[t] = <<>>
            /\ processed_events' = processed_events
            /\ tasks' = tasks
            /\ passes' = passes]_vars

\* C1, witness: the second delivery of E1 has just been skipped
C1_Witness ==
    \E t \in Threads :
        /\ nreq = 2
        /\ request[t] = Post(<<E1>>)
        /\ pc[t] = "dispatch" /\ idx[t] = 2
        /\ dispatched[t] = <<E1>>
        /\ calls[t] = <<>>
        /\ passes[event_key(E1)] = 1

\* C2 as stated: once the marker of (T, D) is in the ledger, no cascade
\* writes D to T again.
C2_NeverWritesMarkedDateAgain ==
    \A t \in Threads :
        pc[t] = "put" =>
            <<sibling(t), new_due_date(current_due_date[t])>> \notin processed_events

\* C2, amended: a cascade that observes T with a due date whose marker is in
\* the ledger does not write to T (the guard looks up the date it observes,
\* which is the date after a shift, not the date before it).
C2_ObservedMarkedDateIsSkipped ==
    \A t \in Threads :
        pc[t] = "put" => <<sibling(t), current_due_date[t]>> \notin processed_events

\* C2, witness: in a second request the guard has just skipped a sibling it
\* observed with the date an earlier cascade wrote
C2_Witness ==
    \E t \in Threads :
        /\ nreq = 2 /\ edits = 0
        /\ pc[t] = "sibling" /\ calls[t] # <<>>
        /\ LET g == last_call(t)[2]
           IN  /\ last_call(t) = <<"GET", g, TRUE>>
               /\ tasks[g].due_on # None
               /\ <<g, tasks[g].due_on>> \in processed_events

\* C3: in a cascade pass for the triggering task X no update call targets X,
\* and no step of the pass changes the due date of X.
C3_CascadeExcludesTrigger ==
    [][\A t \in Threads :
         pc[t] \in {"cascade", "sibling", "guard", "put", "mark"}
         => /\ pc[t] = "put" => sibling(t) # task_id(t)
            /\ edits' = edits => tasks'[task_id(t)].due_on = tasks[task_id(t)].due_on]_vars

\* C3, witness: a pass over a listing that holds X twice is over, X has a due
\* date and is in progress, and a sibling was written
C3_Witness ==
    \E t \in Threads :
        /\ pc[t] = "sibling" /\ in_progress_tasks[t] = <<>>
        /\ Cardinality({i \in 1..Len(listing) : listing[i] = task_id(t)}) = 2
        /\ stage_in_progress(tasks[task_id(t)].custom_fields)
        /\ tasks[task_id(t)].due_on = D(10)
        /\ \E i \in 1..Len(calls[t]) :
             calls[t][i][1] = "PUT" /\ calls[t][i][2] # task_id(t) /\ calls[t][i][4] = "ok"

\* C5: a delivery whose body holds a list of events is answered 200 after
\* every event of the list was handed to process_event, in order, whatever
\* failed on the way.
C5_ValidDeliverySucceeds ==
    \A t \in Threads :
        valid_delivery(request[t]) /\ ~is_handshake(request[t]) =>
            IF pc[t] = "idle"
              THEN /\ response[t].status = 200
                   /\ dispatched[t] = request[t].body.events
              ELSE /\ response[t] = NoResponse
                   /\ Len(dispatched[t]) <= Len(request[t].body.events)
                   /\ dispatched[t] = SubSeq(request[t].body.events, 1, Len(dispatched[t]))

\* C5, witness: a batch whose first event lacks a key and whose second event
\* met a failing call is answered 200
C5_Witness ==
    \E t \in Threads :
        /\ nreq = 1
        /\ request[t] = Post(<<Bad, E1>>)
        /\ pc[t] = "idle" /\ response[t].status = 200
        /\ dispatched[t] = <<Bad, E1>>
        /\ failed

\* C6 as stated: a POST without the handshake header whose body is not JSON,
\* is no JSON object, or holds events that are no list, is answered with a
\* 4xx status and nothing is dispatched.
C6_MalformedIsClientError ==
    \A t \in Threads :
        ( /\ request[t].method = "POST" /\ request[t].secret = None
          /\ \/ request[t].body.json # "object"
             \/ request[t].body.has_events /\ ~request[t].body.iterable )
        => /\ pc[t] = "idle"
           /\ response[t].status \in 400..499
           /\ dispatched[t] = <<>>

\* C7 as stated: every request that carries the X-Hook-Secret header is
\* answered 200 with an empty body and the header echoed, and nothing of the
\* body is processed.
C7_EveryHeaderIsEchoed ==
    \A t \in Threads :
        request[t].secret # None =>
            /\ pc[t] = "idle"
            /\ response[t] = Response(200, "", request[t].secret)
            /\ dispatched[t] = <<>> /\ calls[t] = <<>>

\* C7, amended: every request that carries a non-empty X-Hook-Secret header
\* is answered 200 with an empty body and the header echoed; the handler is
\* done at once, so no event is dispatched, no call is made, and the ledger
\* and the tasks stay as they are.
C7_HandshakeEcho ==
    /\ [](\A t \in Threads :
            request[t].secret # None /\ request[t].secret[1] # "" =>
                /\ pc[t] = "idle"
                /\ response[t] = Response(200, "", request[t].secret)
                /\ dispatched[t] = <<>> /\ calls[t] = <<>>)
    /\ [][\A t \in Threads :
            ( /\ request'[t].secret # None /\ request'[t].secret[1] # ""
              /\ nreq' # nreq /\ pc[t] = "idle" /\ response'[t] # NoResponse )
            => processed_events' = processed_events /\ tasks' = tasks]_vars

\* C7, witness: a POST that carries the header and a list with an event was
\* answered with the echo
C7_Witness ==
    \E t \in Threads :
        /\ request[t] = Request("POST", Secret, Delivery(<<E1>>))
        /\ response[t] = Response(200, "", Secret)
        /\ pc[t] = "idle"
        /\ E1 \notin {dispatched[t][i] : i \in 1..Len(dispatched[t])}

\* the number of the day d, counted from 0001-01-01
DayNumber(d) ==
    LET y == d[1] - 1
        before == <<0, 31, 59, 90, 120, 151, 181, 212, 243, 273, 304, 334>>
    IN  365 * y + (y \div 4) - (y \div 100) + (y \div 400) + before[d[2]]
        + (IF d[2] > 2 /\ IsLeap(d[1]) THEN 1 ELSE 0) + d[3]

\* the priority of a fetched record: the value of its first field named
\* priority, lower-cased, "unset" when there is no such field or no value
priority_of(data) ==
    LET f == FirstField(custom_fields_of(data), "priority")
    IN  IF f = None \/ f[1].enum_value = None THEN "unset" ELSE Lower(f[1].enum_value[1])

offset_of(p) ==
    CASE p = "high" -> 2 [] p = "medium" -> 7 [] p = "low" -> 14 [] OTHER -> 0

\* C8: on a 'changed' event for a task fetched without a due date, the
\* priority rule issues one update call for the task, with the day 2 (high),
\* 7 (medium) or 14 (low) days after the current UTC day, and the task gets
\* that date when the call succeeds; for any other priority, or none, it
\* issues no call and the tasks stay as they are.
C8_PriorityDefault ==
    [][\A t \in Threads :
         (pc[t] = "rules" /\ pc'[t] # "rules" /\ task_data[t].due_on = None) =>
            LET n == offset_of(priority_of(task_data[t]))
            IN  IF n > 0
                  THEN /\ Len(calls'[t]) = Len(calls[t]) + 1
                       /\ SubSeq(calls'[t], 1, Len(calls[t])) = calls[t]
                       /\ LET c == calls'[t][Len(calls'[t])]
                          IN  /\ c[1] = "PUT" /\ c[2] = task_id(t)
                              /\ DayNumber(c[3]) = DayNumber(utcnow) + n
                              /\ c[4] = "ok" => tasks'[task_id(t)].due_on = c[3]
                              /\ c[4] # "ok" => tasks' = tasks
                  ELSE calls'[t] = calls[t] /\ tasks' = tasks]_vars

\* C8, witness: on 2024-02-27 a task of high priority without a due date got
\* 2024-02-29
C8_Witness ==
    \E t \in Threads :
        /\ utcnow = <<2024, 2, 27>>
        /\ pc[t] = "dispatch" /\ idx[t] = 2
        /\ request[t] = Post(<<E1>>)
        /\ calls[t] = << <<"GET", "T1", TRUE>>, <<"PUT", "T1", <<2024, 2, 29>>, "ok">> >>
        /\ tasks["T1"].due_on = <<2024, 2, 29>>
        /\ priority_of(tasks["T1"]) = "high"

\* C9: for a fetched record that has a due date the priority rule issues no
\* update call and changes neither the tasks nor the ledger, whatever the
\* priority.
C9_ExistingDueDateIsKept ==
    [][\A t \in Threads :
         (pc[t] = "rules" /\ pc'[t] # "rules" /\ task_data[t].due_on # None) =>
            /\ calls'[t] = calls[t]
            /\ tasks' = tasks
            /\ processed_events' = processed_events]_vars

\* C9, witness: the rule has run on a task of high priority that has a due
\* date, and the only call so far is the fetch
C9_Witness ==
    \E t \in Threads :
        /\ pc[t] = "cascade"
        /\ task_data[t].due_on = D(10)
        /\ priority_of(task_data[t]) = "high"
        /\ calls[t] = << <<"GET", "T1", TRUE>> >>
        /\ tasks["T1"].due_on = D(10)

due_dates == [g \in TaskIds |-> tasks[g].due_on]

\* C10: in the scenario, with no failing call and no foreign edit, the
\* delivery of the 'changed' event of T1 ends with T1 due 2024-01-10, T2 due
\* 2024-01-07 and T3 due 2024-01-08, and at every moment of a later delivery
\* of the same event the dates are these and no call has been made.
C10_EndToEnd ==
    \A t \in Threads :
        (request[t] = Post(<<E1>>) /\ ~failed /\ edits = 0) =>
            /\ (nreq = 1 /\ pc[t] = "idle") =>
                  /\ response[t].status = 200
                  /\ due_dates = [g \in TaskIds |->
                        CASE g = "T1" -> D(10) [] g = "T2" -> D(7) [] OTHER -> D(8)]
            /\ nreq >= 2 =>
                  /\ due_dates = [g \in TaskIds |->
                        CASE g = "T1" -> D(10) [] g = "T2" -> D(7) [] OTHER -> D(8)]
                  /\ calls[t] = <<>>

\* C10, witness: the second delivery has been answered
C10_Witness ==
    \E t \in Threads :
        /\ request[t] = Post(<<E1>>) /\ ~failed /\ edits = 0
        /\ nreq = 2 /\ pc[t] = "idle" /\ response[t].status = 200
        /\ dispatched[t] = <<E1>>
        /\ tasks["T2"].due_on = D(7) /\ tasks["T3"].due_on = D(8)
        /\ tasks["T1"].due_on = D(10)

\* C4 as stated: of the dispatches of one event identity, handled at the
\* same time or not, at most one finds the identity unmarked and goes on to
\* line 59 and the fetch.
C4_AtMostOnePassPerIdentity ==
    \A k \in DOMAIN passes : passes[k] <= 1


\* the stage of a fetched record: the value of its first field named stage,
\* lower-cased, "unset" when there is no such field or no value
stage_of(data) ==
    LET f == FirstField(custom_fields_of(data), "stage")
    IN  IF f = None \/ f[1].enum_value = None THEN "unset" ELSE Lower(f[1].enum_value[1])

\* C11 as stated: every rule reads the first field named stage and the first
\* field named priority.  A cascade is entered only for a triggering task
\* whose first stage field says in progress and whose first priority field
\* says high, and only tasks whose first stage field says in progress are
\* queued as siblings.
C11_FirstMatchWins ==
    \A t \in Threads :
        /\ pc[t] = "cascade" =>
              /\ stage_of(task_data[t]) = "in progress"
              /\ priority_of(task_data[t]) = "high"
        /\ pc[t] \in {"sibling", "guard", "put", "mark"} =>
              \A i \in 1..Len(in_progress_tasks[t]) :
                  stage_of(tasks[in_progress_tasks[t][i]]) = "in progress"

\* C12: an event whose action is not 'changed' gets its marker at line 59
\* and its fetch, and nothing more: no step of its processing changes a due
\* date, issues an update call or adds anything to the ledger but the
\* marker of the event, whatever the fetched task looks like.
C12_OtherActionsOnlyMark ==
    [][\A t \in Threads :
         ( /\ pc[t] \in {"add", "fetch"}
           /\ event(t).action # <<"changed">>
           /\ pc'[t] # pc[t] )
         => /\ pc'[t] \in {"fetch", "dispatch"}
            /\ event_key(event(t)) \in processed_events'
            /\ processed_events' \ processed_events \subseteq {event_key(event(t))}
            /\ tasks' = tasks
            /\ \A i \in 1..Len(calls'[t]) : calls'[t][i][1] # "PUT"]_vars

\* C12, witness: the 'added' event of a task of high priority, in progress
\* and without a due date has been processed; the marker is there, the only
\* call is the fetch, the task has no due date and the sibling kept its date
C12_Witness ==
    \E t \in Threads :
        /\ request[t] = Post(<<E4>>)
        /\ pc[t] = "dispatch" /\ idx[t] = 2
        /\ calls[t] = << <<"GET", "T1", TRUE>> >>
        /\ processed_events = {event_key(E4)}
        /\ tasks["T1"].due_on = None
        /\ is_high_priority_in_progress(tasks["T1"])
        /\ tasks["T2"].due_on = D(5)

\* the update calls that have succeeded so far in SpecLoop: one event has
\* been queued for each, and each delivery but the first has taken one
writes_so_far == IF nreq = 0 THEN 0 ELSE (nreq - 1) + Len(pending)

quiescent ==
    /\ nreq > 0
    /\ pending = <<>>
    /\ \A t \in Threads : pc[t] = "idle"

\* how far the handler is from the end of its request: every step of the
\* handler makes it smaller
steps_left(t) ==
    CASE pc[t] = "idle"     -> 0
      [] pc[t] = "dispatch" -> 1 + 20 * (Len(events(t)) + 1 - idx[t])
      [] pc[t] = "add"      -> 20 * (Len(events(t)) + 1 - idx[t])
      [] pc[t] = "fetch"    -> 20 * (Len(events(t)) + 1 - idx[t]) - 1
      [] pc[t] = "rules"    -> 20 * (Len(events(t)) + 1 - idx[t]) - 2
      [] pc[t] = "cascade"  -> 20 * (Len(events(t)) + 1 - idx[t]) - 3
      [] pc[t] = "sibling"  -> 20 * (Len(events(t)) - idx[t]) + 2 + 4 * Len(in_progress_tasks[t])
      [] pc[t] = "guard"    -> 20 * (Len(events(t)) - idx[t]) + 1 + 4 * Len(in_progress_tasks[t])
      [] pc[t] = "put"      -> 20 * (Len(events(t)) - idx[t]) + 4 * Len(in_progress_tasks[t])
      [] OTHER              -> 20 * (Len(events(t)) - idx[t]) - 1 + 4 * Len(in_progress_tasks[t])

\* what is left of a run of SpecLoop: the deliveries still possible, then
\* the steps of the request at hand
run_left == 100 * (MaxDeliveries - nreq) + steps_left("h1")

C14_PostShiftBlock ==
    \A t \in Threads :
        pc[t] = "put" =>
            \A u \in Threads : \A i \in 1..Len(calls[u]) :
                ~ /\ calls[u][i][1] = "PUT"
                  /\ calls[u][i][2] = sibling(t)
                  /\ calls[u][i][2] # task_id(u)
                  /\ calls[u][i][3] = current_due_date[t]
                  /\ calls[u][i][4] = "ok"

\* C15: when the update call for a sibling is answered with a status other
\* than 200, the ledger and the tasks stay as they are and the cascade goes
\* on with the siblings that are left, in the same event; and an update
\* marker (T, D) enters the ledger only in the step after an update call
\* that wrote D to T and was answered with 200.
C15_RejectedWriteLeavesNoMarker ==
    /\ [][\A t \in Threads :
            ( /\ pc[t] = "put" /\ pc'[t] # "put"
              /\ calls'[t][Len(calls'[t])][4] = "rejected" )
            => /\ processed_events' = processed_events
               /\ tasks' = tasks
               /\ pc'[t] = "sibling"
               /\ idx'[t] = idx[t]
               /\ in_progress_tasks'[t] = Tail(in_progress_tasks[t])]_vars
    /\ [][\A m \in processed_events' \ processed_events :
            Len(m) = 2 =>
                \E t \in Threads :
                    /\ pc[t] = "mark"
                    /\ last_call(t) = <<"PUT", m[1], m[2], "ok">>]_vars

\* C15, witness: the update of T2 was rejected and the cascade went on to
\* T3, whose update succeeded; T3 has its marker and T2 has none
C15_Witness ==
    \E t \in Threads :
        /\ pc[t] = "sibling" /\ in_progress_tasks[t] = <<>>
        /\ \E i, j \in 1..Len(calls[t]) :
              /\ i < j
              /\ calls[t][i] = <<"PUT", "T2", D(7), "rejected">>
              /\ calls[t][j] = <<"PUT", "T3", D(8), "ok">>
        /\ <<"T3", D(8)>> \in processed_events
        /\ \A m \in processed_events : m[1] # "T2"
        /\ tasks["T2"].due_on = D(5) /\ tasks["T3"].due_on = D(8)

\* C16 as stated: the rules of a 'changed' event go on to the cascade if and
\* only if the fetched task has a stage and a priority, the stage being in
\* progress and the priority high, each read as the field extraction reads
\* it (first field of that name).
C16_CascadeTrigger ==
    [][\A t \in Threads :
         (pc[t] = "rules" /\ pc'[t] # "rules") =>
            ( pc'[t] = "cascade" <=>
                 /\ stage_of(task_data[t]) = "in progress"
                 /\ priority_of(task_data[t]) = "high" )]_vars

\* C17 as stated: the priority rule and the trigger test are both applied
\* to every 'changed' event and neither depends on the other: for a fetched
\* task without a due date whose priority is high and whose stage is in
\* progress, the rules issue the update call of the default due date and,
\* whatever the answer to that call, go on to the cascade.
C17_IndependentRules ==
    [][\A t \in Threads :
         ( /\ pc[t] = "rules" /\ pc'[t] # "rules"
           /\ task_data[t].due_on = None
           /\ priority_of(task_data[t]) = "high"
           /\ stage_of(task_data[t]) = "in progress" )
         => /\ Len(calls'[t]) = Len(calls[t]) + 1
            /\ calls'[t][Len(calls'[t])][1] = "PUT"
            /\ calls'[t][Len(calls'[t])][2] = task_id(t)
            /\ DayNumber(calls'[t][Len(calls'[t])][3]) = DayNumber(utcnow) + offset_of("high")
            /\ pc'[t] = "cascade"]_vars

\* C18 as stated: every update call of a cascade goes to a task of the
\* listing of the triggering task's project that is not the triggering
\* task, whose stage is in progress and which was fetched with a due date
\* d, and asks for the day two days after d; a call that succeeds gives the
\* task that date.
C18_CascadeScopeAndAmount ==
    [][\A t \in Threads :
         (pc[t] = "put" /\ pc'[t] # "put") =>
            LET c == calls'[t][Len(calls'[t])]
            IN  /\ c[1] = "PUT"
                /\ \E i \in 1..Len(listing) : listing[i] = c[2]
                /\ project_gid(task_data[t]) = <<ProjectGid>>
                /\ c[2] # task_id(t)
                /\ stage_of(tasks[c[2]]) = "in progress"
                /\ current_due_date[t] # None
                /\ DayNumber(c[3]) = DayNumber(current_due_date[t]) + 2
                /\ c[4] = "ok" => tasks'[c[2]].due_on = c[3]]_vars

\* the event whose calls are in calls[t]
event_of_calls(t) ==
    IF pc[t] \in {"dispatch", "idle"} THEN events(t)[idx[t] - 1] ELSE event(t)

\* C19: the identity of an event is in the ledger before the first outbound
\* call made for it; nothing is ever taken out of the ledger, whatever
\* becomes of the processing; and a dispatch of an event whose identity is
\* in the ledger goes back to the loop with no call and no write.
C19_MarkBeforeProcessNoRetry ==
    /\ [](\A t \in Threads :
            calls[t] # <<>> => event_key(event_of_calls(t)) \in processed_events)
    /\ [][processed_events \subseteq processed_events']_vars
    /\ [][\A t \in Threads :
            ( /\ pc[t] = "dispatch"
              /\ idx[t] <= Len(events(t))
              /\ dispatched'[t] # dispatched[t]
              /\ event_key(event(t)) \in processed_events )
            => /\ pc'[t] = "dispatch"
               /\ calls'[t] = <<>>
               /\ tasks' = tasks
               /\ pending' = pending]_vars

\* C19, witness: the fetch of the first delivery failed, so that the task of
\* high priority never got its due date; the second delivery of the event
\* has been skipped without a call
C19_Witness ==
    \E t \in Threads :
        /\ nreq = 2 /\ failed
        /\ request[t] = Post(<<E1>>)
        /\ pc[t] = "dispatch" /\ idx[t] = 2
        /\ calls[t] = <<>>
        /\ processed_events = {event_key(E1)}
        /\ passes[event_key(E1)] = 1
        /\ tasks["T1"].due_on = None
        /\ priority_of(tasks["T1"]) = "high"

\* the dates the scenario ends with when the two trigger events are handled
\* one after the other, in either order, with no failing call and no
\* foreign edit
sequential_result ==
    [g \in TaskIds |-> CASE g = "T1" -> D(10) [] g = "T2" -> D(7) [] OTHER -> D(8)]

\* C20 as stated: when two trigger events of one project are handled at the
\* same time, what is left when both are done is what handling them one
\* after the other leaves: each sibling is two days later than it was, never
\* four.
C20_SerializedCascades ==
    ( /\ \A t \in Threads : pc[t] = "idle" /\ response[t].status = 200
      /\ nreq = 2 /\ ~failed /\ edits = 0
      /\ \E t, u \in Threads : request[t] = Post(<<E1>>) /\ request[u] = Post(<<E2>>) )
    => due_dates = sequential_result
====
